---- MODULE Spec2Model ----
(***************************************************************************)
(* Model of Final_project.ipynb: a notebook that builds synthetic          *)
(* "research proposal" targets from SST-2 sentences, splits the data,      *)
(* tokenizes it, fine-tunes flan-t5-small with LoRA for 5 epochs and       *)
(* scores generated proposals.                                             *)
(*                                                                         *)
(* Texts are sequences of atoms (strings); the concatenation of the atoms  *)
(* is the Python string.  A marker such as "Problem:" is the two atoms     *)
(* "Problem", ":" in a row, so that substring search is a real search.     *)
(***************************************************************************)
EXTENDS Integers, Sequences, FiniteSets, TLC

VARIABLES
    \* ---- cell 3: preprocess_data over one batch of examples
    examples,       \* [sentence |-> Seq(text), label |-> Seq(Int)], the batch handed to map()
    input_text,     \* the "input_text" column returned, <<>> before the call
    target_text,    \* the "target_text" column returned
    second_call,    \* the column returned by a second call on the same batch
    prep_pc,        \* "start" | "mapped" | "again"
    \* ---- cell 4: the two train_test_split calls, over two runs of the notebook
    src_n,          \* number of examples of the mapped training split (ids 1..src_n)
    rng_perm,       \* what default_rng(seed).permutation(len) has returned: {<<seed, len, perm>>}
    run,            \* 1 | 2: which run of the notebook
    train_val_data, \* result of the first split of this run, or <<>>
    splits,         \* run -> [train, val, test] (sequences of example ids), or <<>>
    split_pc,       \* "first" | "second" | "done" | "ValueError"
    \* ---- the whole notebook, cell after cell
    pc,             \* the stage about to run
    outcome,        \* "running" | "completed" | "SystemExit" | "Uncaught"
    failed_at,      \* the stage that raised, or "none"
    printed,        \* what has been printed, in order (tags)
    n_source,       \* len(dataset["train"])
    loss_values,    \* the values outputs.loss may take
    sizes,          \* [train, val, test]: len of the three datasets, <<>> before the split
    params,         \* parameter group -> [value, requires_grad], <<>> before the model loads
    epoch,          \* the loop variable of "for epoch in range(EPOCHS)"
    batch_no,       \* batches of the current loader already processed
    total_loss,
    val_loss,
    train_losses,   \* list of <<total, len(loader)>>: total / len(loader)
    val_losses,
    phase_losses,   \* history: the losses of the batches of the phase in progress
    trained,        \* history: optimizer steps taken
    validated,      \* history: validation batches processed
    generated,      \* list of [src |-> test example, text |-> decoded prediction]
    references,     \* list of [src |-> test example, text |-> decoded labels]
    relevance,      \* <<numerator, denominator>>, or <<>> before it is computed
    \* ---- cells 6 and 7: one batch through tokenize_function, the collator and the loss
    raw_batch,      \* list of [input, target]: token ids of the two texts, no special tokens
    tokenized,      \* list of [input_ids, attention_mask, labels] after tokenize_function
    collated,       \* [input_ids, attention_mask, labels] (one row per example) after the collator
    loss_positions, \* row -> the label positions that enter the cross-entropy loss
    tok_pc          \* "raw" | "tokenized" | "collated" | "loss"

propVars == <<examples, input_text, target_text, second_call, prep_pc>>
splitVars == <<src_n, rng_perm, run, train_val_data, splits, split_pc>>

runVars == <<pc, outcome, failed_at, printed, n_source, loss_values, sizes, params,
             epoch, batch_no, total_loss, val_loss, train_losses, val_losses,
             phase_losses, trained, validated, generated, references, relevance>>

tokVars == <<raw_batch, tokenized, collated, loss_positions, tok_pc>>

vars == <<propVars, splitVars, runVars, tokVars>>

-----------------------------------------------------------------------------
(* Bounds *)
MaxSentenceLen == 2     \* atoms in a sentence
MaxBatch == 2           \* examples in the batch handed to preprocess_data
MaxSource == 6          \* examples of the source split whose permutations are enumerated
SizeCheckMax == 200     \* source sizes for which the split sizes are computed
SourceSize == 20        \* len(dataset["train"]) in a run whose losses vary
LargeSourceSize == 90   \* len(dataset["train"]) in a run with several batches per loader
MaxPreds == 2           \* predictions in a list handed to the relevance ratio
MaxTokBatch == 2        \* examples in the batch that is tokenized

-----------------------------------------------------------------------------
(* Texts *)

RECURSIVE Join(_)
\* The Python string a text stands for.
Join(text) == IF text = <<>> THEN "" ELSE Head(text) \o Join(Tail(text))

\* Positions at which `marker` occurs in `text` (Python: str.find / in / count).
Occurrences(marker, text) ==
    { i \in 1..(Len(text) - Len(marker) + 1) :
        SubSeq(text, i, i + Len(marker) - 1) = marker }

CountOcc(marker, text) == Cardinality(Occurrences(marker, text))

\* Python: marker in text
Contains(marker, text) == Occurrences(marker, text) # {}

ProblemMarker == <<"Problem", ":">>
HypothesisMarker == <<"Hypothesis", ":">>
MethodologyMarker == <<"Methodology", ":">>
Markers == {ProblemMarker, HypothesisMarker, MethodologyMarker}

StirringSentence == "a stirring, funny and finally transporting re-imagining"

SentenceAtoms == {"Problem", "Hypothesis", "Methodology", ":", StirringSentence}

RECURSIVE SeqsUpTo(_, _)
SeqsUpTo(S, k) ==
    IF k = 0 THEN {<<>>}
    ELSE LET shorter == SeqsUpTo(S, k - 1)
         IN  shorter \cup { Append(s, a) : s \in shorter, a \in S }

Sentences == SeqsUpTo(SentenceAtoms, MaxSentenceLen)
Labels == {-1, 0, 1}

-----------------------------------------------------------------------------
(* Cell 3: create_synthetic_proposal, preprocess_data *)

SentimentFlipped(label) == IF label = 0 THEN "positive" ELSE "negative"

\* sentiment = "positive" if label == 1 else "negative"
Sentiment(label) == IF label = 1 THEN "positive" ELSE "negative"

create_synthetic_proposal_dup(sentence, label) ==
    LET sentiment == Sentiment(label)
        problem == <<"Analyze sentiment in short texts like", ":", " '">>
                     \o sentence \o <<"'">>
        hypothesis == <<"The ", sentiment,
                        " sentiment can be detected using contextual embeddings.">>
        methodology == <<"Use a transformer-based model with fine-tuning on short-text datasets.">>
    IN  <<"Problem", ":", " ">> \o problem
          \o <<"\n", "Problem", ":", " ">> \o hypothesis
          \o <<"\n", "Methodology", ":", " ">> \o methodology

create_synthetic_proposal(sentence, label) ==
    LET sentiment == Sentiment(label)
        problem == <<"Analyze sentiment in short texts like", ":", " '">>
                     \o sentence \o <<"'">>
        hypothesis == <<"The ", sentiment,
                        " sentiment can be detected using contextual embeddings.">>
        methodology == <<"Use a transformer-based model with fine-tuning on short-text datasets.">>
    IN  <<"Problem", ":", " ">> \o problem
          \o <<"\n", "Hypothesis", ":", " ">> \o hypothesis
          \o <<"\n", "Methodology", ":", " ">> \o methodology

InputPrefix == "Propose a method for sentiment analysis of ambiguous short texts: "

\* zip(examples["sentence"], examples["label"]): as long as the shorter column
ZipLen(ex) == IF Len(ex.sentence) <= Len(ex.label) THEN Len(ex.sentence) ELSE Len(ex.label)

preprocess_data(ex) ==
    [ input_text  |-> [ i \in 1..Len(ex.sentence) |-> <<InputPrefix>> \o ex.sentence[i] ],
      target_text |-> [ i \in 1..ZipLen(ex) |->
                          create_synthetic_proposal(ex.sentence[i], ex.label[i]) ] ]

\* rows that may follow the first row of a batch
MoreRows == { [sentence |-> <<StirringSentence>>, label |-> 1],
              [sentence |-> <<"Problem", ":", "Hypothesis">>, label |-> 0] }

\* the batches handed to preprocess_data: any first row, then rows of MoreRows
Batches ==
    UNION { { [ sentence |-> <<s>> \o [ k \in 1..n |-> rest[k].sentence ],
                label    |-> <<l>> \o [ k \in 1..n |-> rest[k].label ] ] :
                s \in Sentences, l \in Labels, rest \in [1..n -> MoreRows] }
            : n \in 0..(MaxBatch - 1) }

IdleSplit ==
    /\ src_n = 0
    /\ rng_perm = {}
    /\ run = 0
    /\ train_val_data = <<>>
    /\ splits = <<>>
    /\ split_pc = "idle"

IdleTok ==
    /\ raw_batch = <<>>
    /\ tokenized = <<>>
    /\ collated = <<>>
    /\ loss_positions = <<>>
    /\ tok_pc = "idle"

IdleRun ==
    /\ pc = "idle"
    /\ outcome = "idle"
    /\ failed_at = "none"
    /\ printed = <<>>
    /\ n_source = 0
    /\ loss_values = {}
    /\ sizes = <<>>
    /\ params = <<>>
    /\ epoch = 0
    /\ batch_no = 0
    /\ total_loss = 0
    /\ val_loss = 0
    /\ train_losses = <<>>
    /\ val_losses = <<>>
    /\ phase_losses = <<>>
    /\ trained = 0
    /\ validated = 0
    /\ generated = <<>>
    /\ references = <<>>
    /\ relevance = <<>>

ProposalStart ==
    /\ examples \in Batches
    /\ input_text = <<>>
    /\ target_text = <<>>
    /\ second_call = <<>>
    /\ prep_pc = "start"

\* dataset.map(preprocess_data, batched=True) on one batch
MapBatch ==
    /\ prep_pc = "start"
    /\ LET out == preprocess_data(examples)
       IN  /\ input_text' = out.input_text
           /\ target_text' = out.target_text
    /\ prep_pc' = "mapped"
    /\ UNCHANGED <<examples, second_call, splitVars, runVars, tokVars>>

\* the same function called once more on the same batch
MapBatchAgain ==
    /\ prep_pc = "mapped"
    /\ second_call' = preprocess_data(examples).target_text
    /\ prep_pc' = "again"
    /\ UNCHANGED <<examples, input_text, target_text, splitVars, runVars, tokVars>>

NextProposal == MapBatch \/ MapBatchAgain

InitProposal == ProposalStart /\ IdleSplit /\ IdleRun /\ IdleTok

SpecProposal == InitProposal /\ [][NextProposal]_vars

-----------------------------------------------------------------------------
(* Cell 4: Dataset.train_test_split(test_size, seed), called twice *)

Seed == 42

RECURSIVE Perms(_)
\* All orderings of the set S, as sequences.
Perms(S) ==
    IF S = {} THEN {<<>>}
    ELSE UNION { { <<x>> \o p : p \in Perms(S \ {x}) } : x \in S }

\* ceil(test_size * n_samples) for test_size = num/den
NTest(n_samples, num, den) == (n_samples * num + den - 1) \div den

\* train_size is None: the rest
NTrain(n_samples, num, den) == n_samples - NTest(n_samples, num, den)

train_test_split_overlap(ds, num, den, perm) ==
    LET n_test == NTest(Len(ds), num, den)
        n_train == NTrain(Len(ds), num, den)
    IN  [ test  |-> [ i \in 1..n_test |-> ds[perm[i]] ],
          train |-> [ i \in 1..n_train |-> ds[perm[n_test - 1 + i]] ] ]

\* test_indices = permutation[:n_test]; train_indices = permutation[n_test:n_test+n_train]
train_test_split(ds, num, den, perm) ==
    LET n_test == NTest(Len(ds), num, den)
        n_train == NTrain(Len(ds), num, den)
    IN  [ test  |-> [ i \in 1..n_test |-> ds[perm[i]] ],
          train |-> [ i \in 1..n_train |-> ds[perm[n_test + i]] ] ]

\* np.random.default_rng(seed).permutation(len): a function of (seed, len) that
\* the model does not know; the first call fixes it, later calls return the same.
SeededPermutations(seed, len) ==
    IF \E e \in rng_perm : e[1] = seed /\ e[2] = len
    THEN { e[3] : e \in { f \in rng_perm : f[1] = seed /\ f[2] = len } }
    ELSE Perms(1..len)

SplitStart ==
    /\ src_n \in 0..MaxSource
    /\ rng_perm = {}
    /\ run = 1
    /\ train_val_data = <<>>
    /\ splits = <<>>
    /\ split_pc = "first"

\* train_val_data = train_data.train_test_split(test_size=0.2, seed=42)
FirstSplit ==
    /\ split_pc = "first"
    /\ NTrain(src_n, 1, 5) > 0
    /\ \E perm \in SeededPermutations(Seed, src_n) :
          /\ train_val_data' = train_test_split([i \in 1..src_n |-> i], 1, 5, perm)
          /\ rng_perm' = rng_perm \cup {<<Seed, src_n, perm>>}
    /\ split_pc' = "second"
    /\ UNCHANGED <<src_n, run, splits>>

\* val_test_data = train_val_data["test"].train_test_split(test_size=0.5, seed=42)
\* and the three assignments that follow
SecondSplit ==
    /\ split_pc = "second"
    /\ NTrain(Len(train_val_data.test), 1, 2) > 0
    /\ \E perm \in SeededPermutations(Seed, Len(train_val_data.test)) :
          LET val_test_data == train_test_split(train_val_data.test, 1, 2, perm)
              result == [ train |-> train_val_data.train,
                          val   |-> val_test_data.train,
                          test  |-> val_test_data.test ]
          IN  /\ splits' = Append(splits, result)
              /\ rng_perm' = rng_perm \cup {<<Seed, Len(train_val_data.test), perm>>}
    /\ split_pc' = "done"
    /\ UNCHANGED <<src_n, run, train_val_data>>

\* train_test_split raises ValueError when the train set would be empty;
\* nothing catches it
SplitRaises ==
    /\ \/ split_pc = "first" /\ NTrain(src_n, 1, 5) = 0
       \/ split_pc = "second" /\ NTrain(Len(train_val_data.test), 1, 2) = 0
    /\ split_pc' = "ValueError"
    /\ UNCHANGED <<src_n, rng_perm, run, train_val_data, splits>>

\* the notebook is run a second time on the same source
RunAgain ==
    /\ split_pc = "done"
    /\ run = 1
    /\ run' = 2
    /\ train_val_data' = <<>>
    /\ split_pc' = "first"
    /\ UNCHANGED <<src_n, rng_perm, splits>>

NextSplit ==
    \/ (FirstSplit /\ UNCHANGED <<propVars, runVars, tokVars>>)
    \/ (SecondSplit /\ UNCHANGED <<propVars, runVars, tokVars>>)
    \/ (SplitRaises /\ UNCHANGED <<propVars, runVars, tokVars>>)
    \/ (RunAgain /\ UNCHANGED <<propVars, runVars, tokVars>>)

IdleProposal ==
    /\ examples = <<>>
    /\ input_text = <<>>
    /\ target_text = <<>>
    /\ second_call = <<>>
    /\ prep_pc = "idle"

InitSplit == SplitStart /\ IdleProposal /\ IdleRun /\ IdleTok

SpecSplit == InitSplit /\ [][NextSplit]_vars

-----------------------------------------------------------------------------
(* The notebook, cell after cell *)

EPOCHS == 5
BatchSize == 8

\* len(DataLoader(dataset, batch_size=8)): drop_last is False
NumBatches(size) == (size + BatchSize - 1) \div BatchSize

\* the stages wrapped in try / except Exception: print(...); raise SystemExit(...)
GuardedTwo == {"load_dataset", "load_model"}

Guarded == {"load_dataset", "preprocess", "load_model"}

BatchStages == {"train", "validate", "test"}

\* T5ForConditionalGeneration.from_pretrained: every weight is trainable
from_pretrained == [base |-> [value |-> 0, requires_grad |-> TRUE]]

get_peft_model_unfrozen(model) ==
    [ g \in {"base", "lora_A", "lora_B"} |->
        IF g = "base" THEN model.base ELSE [value |-> 0, requires_grad |-> TRUE] ]

\* get_peft_model(model, lora_config), bias="none": the base weights are frozen
\* and the lora_A / lora_B matrices of the q and v projections are added, trainable
get_peft_model(model) ==
    [ g \in {"base", "lora_A", "lora_B"} |->
        IF g = "base" THEN [value |-> model.base.value, requires_grad |-> FALSE]
        ELSE [value |-> 0, requires_grad |-> TRUE] ]

\* loss.backward(); optimizer.step(); optimizer.zero_grad(): backward gives a
\* gradient to the parameters that require one, Adafactor skips a parameter
\* whose grad is None
optimizer_step(ps) ==
    [ g \in DOMAIN ps |->
        IF ps[g].requires_grad THEN [ps[g] EXCEPT !.value = @ + 1] ELSE ps[g] ]

\* the test examples of batch number b (from 0) of a loader that does not shuffle
BatchRows(b, size) ==
    LET first == b * BatchSize + 1
        last == IF (b + 1) * BatchSize <= size THEN (b + 1) * BatchSize ELSE size
    IN  [ k \in 1..(last - first + 1) |-> first + k - 1 ]

ConformingText == <<"Problem", ":", " p\n", "Hypothesis", ":", " h\n", "Methodology", ":", " m">>

\* what tokenizer.batch_decode(model.generate(...)) may give for one row
PredPool == { <<>>, ConformingText }

\* tokenizer.batch_decode(rows, skip_special_tokens=True): one string per row
batch_decode(rows, texts) ==
    [ k \in 1..Len(rows) |-> [src |-> rows[k], text |-> texts[k]] ]

RECURSIVE NonEmpty(_)
NonEmpty(decoded) ==
    IF decoded = <<>> THEN <<>>
    ELSE IF Head(decoded).text = <<>> THEN NonEmpty(Tail(decoded))
         ELSE <<Head(decoded)>> \o NonEmpty(Tail(decoded))

extend_nonempty(list, decoded) == list \o NonEmpty(decoded)

\* list.extend(decoded)
extend(list, decoded) == list \o decoded

relevance_any(preds) ==
    << Cardinality({ k \in 1..Len(preds) :
                       \/ Contains(ProblemMarker, preds[k].text)
                       \/ Contains(HypothesisMarker, preds[k].text)
                       \/ Contains(MethodologyMarker, preds[k].text) }),
       Len(preds) >>

\* sum(1 for pred in generated if "Problem:" in pred and "Hypothesis:" in pred
\*     and "Methodology:" in pred) / len(generated), as numerator and denominator
relevance_of(preds) ==
    << Cardinality({ k \in 1..Len(preds) :
                       /\ Contains(ProblemMarker, preds[k].text)
                       /\ Contains(HypothesisMarker, preds[k].text)
                       /\ Contains(MethodologyMarker, preds[k].text) }),
       Len(preds) >>

RunStart(n, losses) ==
    /\ pc = "load_dataset"
    /\ outcome = "running"
    /\ failed_at = "none"
    /\ printed = <<>>
    /\ n_source = n
    /\ loss_values = losses
    /\ sizes = <<>>
    /\ params = <<>>
    /\ epoch = 0
    /\ batch_no = 0
    /\ total_loss = 0
    /\ val_loss = 0
    /\ train_losses = <<>>
    /\ val_losses = <<>>
    /\ phase_losses = <<>>
    /\ trained = 0
    /\ validated = 0
    /\ generated = <<>>
    /\ references = <<>>
    /\ relevance = <<>>

\* dataset = load_dataset("stanfordnlp/sst2")
LoadDataset ==
    /\ outcome = "running" /\ pc = "load_dataset"
    /\ printed' = Append(printed, "Dataset loaded")
    /\ pc' = "preprocess"
    /\ UNCHANGED <<outcome, failed_at, n_source, loss_values, sizes, params, epoch, batch_no,
                   total_loss, val_loss, train_losses, val_losses, phase_losses,
                   trained, validated, generated, references, relevance>>

\* the two dataset.map(preprocess_data, ...) calls
Preprocess ==
    /\ outcome = "running" /\ pc = "preprocess"
    /\ pc' = "split"
    /\ UNCHANGED <<outcome, failed_at, printed, n_source, loss_values, sizes, params,
                   epoch, batch_no, total_loss, val_loss, train_losses, val_losses,
                   phase_losses, trained, validated, generated, references, relevance>>

\* the two train_test_split calls; an empty train side raises ValueError
SplitData ==
    /\ outcome = "running" /\ pc = "split"
    /\ NTrain(n_source, 1, 5) > 0
    /\ NTrain(NTest(n_source, 1, 5), 1, 2) > 0
    /\ sizes' = [ train |-> NTrain(n_source, 1, 5),
                  val   |-> NTrain(NTest(n_source, 1, 5), 1, 2),
                  test  |-> NTest(NTest(n_source, 1, 5), 1, 2) ]
    /\ printed' = Append(printed, "Train size")
    /\ pc' = "load_model"
    /\ UNCHANGED <<outcome, failed_at, n_source, loss_values, params, epoch, batch_no,
                   total_loss, val_loss, train_losses, val_losses, phase_losses,
                   trained, validated, generated, references, relevance>>

\* T5Tokenizer.from_pretrained, T5ForConditionalGeneration.from_pretrained
LoadModel ==
    /\ outcome = "running" /\ pc = "load_model"
    /\ params' = from_pretrained
    /\ pc' = "attach_adapter"
    /\ UNCHANGED <<outcome, failed_at, printed, n_source, loss_values, sizes, epoch, batch_no,
                   total_loss, val_loss, train_losses, val_losses, phase_losses,
                   trained, validated, generated, references, relevance>>

\* model = get_peft_model(model, lora_config); model.print_trainable_parameters()
AttachAdapter ==
    /\ outcome = "running" /\ pc = "attach_adapter"
    /\ params' = get_peft_model(params)
    /\ printed' = Append(printed, "trainable params")
    /\ pc' = "tokenize"
    /\ UNCHANGED <<outcome, failed_at, n_source, loss_values, sizes, epoch, batch_no,
                   total_loss, val_loss, train_losses, val_losses, phase_losses,
                   trained, validated, generated, references, relevance>>

\* the three dataset.map(tokenize_function, ...) calls, then the collator, the
\* loaders, the optimizer, EPOCHS = 5, train_losses = [], val_losses = []
Tokenize ==
    /\ outcome = "running" /\ pc = "tokenize"
    /\ train_losses' = <<>>
    /\ val_losses' = <<>>
    /\ epoch' = 0
    /\ pc' = "epoch"
    /\ UNCHANGED <<outcome, failed_at, printed, n_source, loss_values, sizes, params, batch_no,
                   total_loss, val_loss, phase_losses, trained, validated, generated,
                   references, relevance>>

BeginEpochNoReset ==
    /\ outcome = "running" /\ pc = "epoch"
    /\ epoch < EPOCHS
    /\ batch_no' = 0
    /\ phase_losses' = <<>>
    /\ pc' = "train"
    /\ UNCHANGED <<outcome, failed_at, printed, n_source, loss_values, sizes, params,
                   epoch, total_loss, val_loss, train_losses, val_losses, trained,
                   validated, generated, references, relevance>>

\* for epoch in range(EPOCHS): model.train(); total_loss = 0
BeginEpoch ==
    /\ outcome = "running" /\ pc = "epoch"
    /\ epoch < EPOCHS
    /\ total_loss' = 0
    /\ batch_no' = 0
    /\ phase_losses' = <<>>
    /\ pc' = "train"
    /\ UNCHANGED <<outcome, failed_at, printed, n_source, loss_values, sizes, params,
                   epoch, val_loss, train_losses, val_losses, trained, validated,
                   generated, references, relevance>>

\* one pass of "for batch in train_loader": forward, backward, optimizer step,
\* zero_grad, total_loss += loss.item()
TrainBatch ==
    /\ outcome = "running" /\ pc = "train"
    /\ batch_no < NumBatches(sizes.train)
    /\ \E loss \in loss_values :
          /\ total_loss' = total_loss + loss
          /\ phase_losses' = Append(phase_losses, loss)
    /\ params' = optimizer_step(params)
    /\ trained' = trained + 1
    /\ batch_no' = batch_no + 1
    /\ UNCHANGED <<pc, outcome, failed_at, printed, n_source, loss_values, sizes, epoch,
                   val_loss, train_losses, val_losses, validated, generated,
                   references, relevance>>

\* avg_train_loss = total_loss / len(train_loader); train_losses.append(...);
\* model.eval(); val_loss = 0
EndTrain ==
    /\ outcome = "running" /\ pc = "train"
    /\ batch_no = NumBatches(sizes.train)
    /\ train_losses' = Append(train_losses, <<total_loss, NumBatches(sizes.train)>>)
    /\ printed' = Append(printed, "Avg Training Loss")
    /\ val_loss' = 0
    /\ batch_no' = 0
    /\ phase_losses' = <<>>
    /\ pc' = "validate"
    /\ UNCHANGED <<outcome, failed_at, n_source, loss_values, sizes, params, epoch,
                   total_loss, val_losses, trained, validated, generated, references,
                   relevance>>

\* one pass of "for batch in val_loader" under torch.no_grad(): forward only,
\* val_loss += outputs.loss.item()
ValBatch ==
    /\ outcome = "running" /\ pc = "validate"
    /\ batch_no < NumBatches(sizes.val)
    /\ \E loss \in loss_values :
          /\ val_loss' = val_loss + loss
          /\ phase_losses' = Append(phase_losses, loss)
    /\ validated' = validated + 1
    /\ batch_no' = batch_no + 1
    /\ UNCHANGED <<pc, outcome, failed_at, printed, n_source, loss_values, sizes, params,
                   epoch, total_loss, train_losses, val_losses, trained, generated,
                   references, relevance>>

\* avg_val_loss = val_loss / len(val_loader); val_losses.append(...); next epoch
EndValidate ==
    /\ outcome = "running" /\ pc = "validate"
    /\ batch_no = NumBatches(sizes.val)
    /\ val_losses' = Append(val_losses, <<val_loss, NumBatches(sizes.val)>>)
    /\ printed' = Append(printed, "Avg Validation Loss")
    /\ epoch' = epoch + 1
    /\ batch_no' = 0
    /\ phase_losses' = <<>>
    /\ pc' = "epoch"
    /\ UNCHANGED <<outcome, failed_at, n_source, loss_values, sizes, params, total_loss,
                   val_loss, train_losses, trained, validated, generated, references,
                   relevance>>

\* the loop is over: plot, load the metrics, test_loader, model.eval(),
\* generated, references = [], []
BeginTest ==
    /\ outcome = "running" /\ pc = "epoch"
    /\ epoch = EPOCHS
    /\ generated' = <<>>
    /\ references' = <<>>
    /\ batch_no' = 0
    /\ pc' = "test"
    /\ UNCHANGED <<outcome, failed_at, printed, n_source, loss_values, sizes, params,
                   epoch, total_loss, val_loss, train_losses, val_losses, phase_losses,
                   trained, validated, relevance>>

\* one pass of "for batch in test_loader": generate, decode predictions and
\* labels, extend both lists
TestBatch ==
    /\ outcome = "running" /\ pc = "test"
    /\ batch_no < NumBatches(sizes.test)
    /\ LET rows == BatchRows(batch_no, sizes.test)
       IN  \E preds \in [1..Len(rows) -> PredPool] :
              /\ generated' = extend(generated, batch_decode(rows, preds))
              /\ references' = extend(references,
                                      batch_decode(rows, [k \in 1..Len(rows) |-> <<"target", rows[k]>>]))
    /\ batch_no' = batch_no + 1
    /\ UNCHANGED <<pc, outcome, failed_at, printed, n_source, loss_values, sizes, params,
                   epoch, total_loss, val_loss, train_losses, val_losses, phase_losses,
                   trained, validated, relevance>>

\* rouge.compute(...); print("Final Test ROUGE-L:", ...)
ComputeRouge ==
    /\ outcome = "running" /\ pc = "test"
    /\ batch_no = NumBatches(sizes.test)
    /\ printed' = Append(printed, "Final Test ROUGE-L")
    /\ pc' = "score"
    /\ UNCHANGED <<outcome, failed_at, n_source, loss_values, sizes, params, epoch, batch_no,
                   total_loss, val_loss, train_losses, val_losses, phase_losses, trained,
                   validated, generated, references, relevance>>

\* novelty, relevance, and the two prints that end the notebook
ComputeNoveltyRelevance ==
    /\ outcome = "running" /\ pc = "score"
    /\ Len(generated) > 0
    /\ relevance' = relevance_of(generated)
    /\ printed' = printed \o <<"Novelty Score", "Relevance Score">>
    /\ pc' = "done"
    /\ outcome' = "completed"
    /\ UNCHANGED <<failed_at, n_source, loss_values, sizes, params, epoch, batch_no, total_loss,
                   val_loss, train_losses, val_losses, phase_losses, trained, validated,
                   generated, references>>

\* a guarded stage raises: except Exception prints the error and raises SystemExit
FailGuarded ==
    /\ outcome = "running" /\ pc \in Guarded
    /\ failed_at' = pc
    /\ printed' = Append(printed, "Error")
    /\ outcome' = "SystemExit"
    /\ UNCHANGED <<pc, n_source, loss_values, sizes, params, epoch, batch_no, total_loss,
                   val_loss, train_losses, val_losses, phase_losses, trained, validated,
                   generated, references, relevance>>

\* any other stage outside the three loops raises: nothing catches it
FailUnguarded ==
    /\ outcome = "running" /\ pc \notin Guarded /\ pc \notin BatchStages
    /\ failed_at' = pc
    /\ outcome' = "Uncaught"
    /\ UNCHANGED <<pc, printed, n_source, loss_values, sizes, params, epoch, batch_no,
                   total_loss, val_loss, train_losses, val_losses, phase_losses, trained,
                   validated, generated, references, relevance>>

BatchesLeft ==
    \/ pc = "train" /\ batch_no < NumBatches(sizes.train)
    \/ pc = "validate" /\ batch_no < NumBatches(sizes.val)
    \/ pc = "test" /\ batch_no < NumBatches(sizes.test)

FailBatchSkipped ==
    /\ outcome = "running" /\ BatchesLeft
    /\ failed_at' = pc
    /\ batch_no' = batch_no + 1
    /\ UNCHANGED <<pc, outcome, printed, n_source, loss_values, sizes, params, epoch,
                   total_loss, val_loss, train_losses, val_losses, phase_losses, trained,
                   validated, generated, references, relevance>>

\* the body of one of the three batch loops raises: there is no try in the loops
FailBatch ==
    /\ outcome = "running" /\ BatchesLeft
    /\ failed_at' = pc
    /\ outcome' = "Uncaught"
    /\ UNCHANGED <<pc, printed, n_source, loss_values, sizes, params, epoch, batch_no,
                   total_loss, val_loss, train_losses, val_losses, phase_losses, trained,
                   validated, generated, references, relevance>>

\* the code after a loop (the average, the append, the prints, the scores) raises
FailAfterLoop ==
    /\ outcome = "running" /\ pc \in BatchStages /\ ~BatchesLeft
    /\ failed_at' = "after " \o pc
    /\ outcome' = "Uncaught"
    /\ UNCHANGED <<pc, printed, n_source, loss_values, sizes, params, epoch, batch_no,
                   total_loss, val_loss, train_losses, val_losses, phase_losses, trained,
                   validated, generated, references, relevance>>

Next ==
    \/ (LoadDataset /\ UNCHANGED <<propVars, splitVars, tokVars>>)
    \/ (Preprocess /\ UNCHANGED <<propVars, splitVars, tokVars>>)
    \/ (SplitData /\ UNCHANGED <<propVars, splitVars, tokVars>>)
    \/ (LoadModel /\ UNCHANGED <<propVars, splitVars, tokVars>>)
    \/ (AttachAdapter /\ UNCHANGED <<propVars, splitVars, tokVars>>)
    \/ (Tokenize /\ UNCHANGED <<propVars, splitVars, tokVars>>)
    \/ (BeginEpoch /\ UNCHANGED <<propVars, splitVars, tokVars>>)
    \/ (TrainBatch /\ UNCHANGED <<propVars, splitVars, tokVars>>)
    \/ (EndTrain /\ UNCHANGED <<propVars, splitVars, tokVars>>)
    \/ (ValBatch /\ UNCHANGED <<propVars, splitVars, tokVars>>)
    \/ (EndValidate /\ UNCHANGED <<propVars, splitVars, tokVars>>)
    \/ (BeginTest /\ UNCHANGED <<propVars, splitVars, tokVars>>)
    \/ (TestBatch /\ UNCHANGED <<propVars, splitVars, tokVars>>)
    \/ (ComputeRouge /\ UNCHANGED <<propVars, splitVars, tokVars>>)
    \/ (ComputeNoveltyRelevance /\ UNCHANGED <<propVars, splitVars, tokVars>>)
    \/ (FailGuarded /\ UNCHANGED <<propVars, splitVars, tokVars>>)
    \/ (FailUnguarded /\ UNCHANGED <<propVars, splitVars, tokVars>>)
    \/ (FailBatch /\ UNCHANGED <<propVars, splitVars, tokVars>>)
    \/ (FailAfterLoop /\ UNCHANGED <<propVars, splitVars, tokVars>>)

\* a run on a small source whose batch losses vary
Init == RunStart(SourceSize, {1, 2}) /\ IdleProposal /\ IdleSplit /\ IdleTok

Spec == Init /\ [][Next]_vars

\* a run on a source large enough for several batches in every loader
InitLarge == RunStart(LargeSourceSize, {1}) /\ IdleProposal /\ IdleSplit /\ IdleTok

SpecLarge == InitLarge /\ [][Next]_vars

-----------------------------------------------------------------------------
(* Cell 8, last lines: the relevance ratio of a list of predictions *)

\* pieces a prediction is made of: the three markers, and a section name
\* without its colon
Pieces == << ProblemMarker, HypothesisMarker, MethodologyMarker, <<"Methodology">> >>

RECURSIVE TextOf(_, _)
\* the pieces numbered in S, from piece k on, each followed by some words
TextOf(S, k) ==
    IF k > Len(Pieces) THEN <<>>
    ELSE (IF k \in S THEN Pieces[k] \o <<" words\n">> ELSE <<>>) \o TextOf(S, k + 1)

RelevancePool == { TextOf(S, 1) : S \in SUBSET (1..Len(Pieces)) }

PredLists ==
    UNION { { [ k \in 1..n |-> [src |-> k, text |-> t[k]] ] : t \in [1..n -> RelevancePool] }
            : n \in 0..MaxPreds }

RelevanceStart ==
    /\ pc = "relevance"
    /\ outcome = "running"
    /\ failed_at = "none"
    /\ printed = <<>>
    /\ n_source = 0
    /\ loss_values = {}
    /\ sizes = <<>>
    /\ params = <<>>
    /\ epoch = 0
    /\ batch_no = 0
    /\ total_loss = 0
    /\ val_loss = 0
    /\ train_losses = <<>>
    /\ val_losses = <<>>
    /\ phase_losses = <<>>
    /\ trained = 0
    /\ validated = 0
    /\ generated \in PredLists
    /\ references = <<>>
    /\ relevance = <<>>

\* relevance = sum(...) / len(generated); print(f"Relevance Score: ...")
ScoreRelevance ==
    /\ pc = "relevance"
    /\ outcome = "running"
    /\ Len(generated) > 0
    /\ relevance' = relevance_of(generated)
    /\ printed' = Append(printed, "Relevance Score")
    /\ pc' = "done"
    /\ UNCHANGED <<outcome, failed_at, n_source, loss_values, sizes, params, epoch,
                   batch_no, total_loss, val_loss, train_losses, val_losses, phase_losses,
                   trained, validated, generated, references>>

\* len(generated) is 0: the division raises ZeroDivisionError
ScoreEmptyRaises ==
    /\ pc = "relevance"
    /\ outcome = "running"
    /\ Len(generated) = 0
    /\ failed_at' = pc
    /\ outcome' = "Uncaught"
    /\ UNCHANGED <<pc, printed, n_source, loss_values, sizes, params, epoch, batch_no,
                   total_loss, val_loss, train_losses, val_losses, phase_losses, trained,
                   validated, generated, references, relevance>>

NextRelevance ==
    \/ (ScoreRelevance /\ UNCHANGED <<propVars, splitVars, tokVars>>)
    \/ (ScoreEmptyRaises /\ UNCHANGED <<propVars, splitVars, tokVars>>)

InitRelevance == RelevanceStart /\ IdleProposal /\ IdleSplit /\ IdleTok

SpecRelevance == InitRelevance /\ [][NextRelevance]_vars

-----------------------------------------------------------------------------
(* Cells 6 and 7: tokenize_function, DataCollatorForSeq2Seq, the loss of a batch *)

InputMaxLength == 128
TargetMaxLength == 256

\* T5Tokenizer: <pad> is id 0, </s> is id 1
PadTokenId == 0
EosTokenId == 1

\* DataCollatorForSeq2Seq.label_pad_token_id and the ignore_index of the
\* cross-entropy loss of T5ForConditionalGeneration
IgnoreIndex == -100

\* tokenizer(text, max_length=L, truncation=True, padding="max_length") for one
\* text: </s> is appended, the text is cut so that the whole fits L, and <pad>
\* fills the rest
Encode(raw, L) ==
    LET kept == IF Len(raw) + 1 > L THEN SubSeq(raw, 1, L - 1) ELSE raw
        ids == Append(kept, EosTokenId)
    IN  [ input_ids      |-> ids \o [ k \in 1..(L - Len(ids)) |-> PadTokenId ],
          attention_mask |-> [ k \in 1..Len(ids) |-> 1 ] \o [ k \in 1..(L - Len(ids)) |-> 0 ] ]

\* tokenize_function on one example: inputs["labels"] = targets["input_ids"]
tokenize_function(ex) ==
    LET inputs == Encode(ex.input, InputMaxLength)
        targets == Encode(ex.target, TargetMaxLength)
    IN  [ input_ids      |-> inputs.input_ids,
          attention_mask |-> inputs.attention_mask,
          labels         |-> targets.input_ids ]

MaxOf(S) == CHOOSE x \in S : \A y \in S : y <= x

\* DataCollatorForSeq2Seq.__call__: every labels row is padded with
\* label_pad_token_id up to the longest labels row of the batch; input_ids and
\* attention_mask are padded by tokenizer.pad up to the longest input row
data_collator(features) ==
    LET max_label_length == MaxOf({ Len(features[r].labels) : r \in 1..Len(features) })
        max_input_length == MaxOf({ Len(features[r].input_ids) : r \in 1..Len(features) })
    IN  [ labels |->
            [ r \in 1..Len(features) |->
                features[r].labels
                  \o [ k \in 1..(max_label_length - Len(features[r].labels)) |-> IgnoreIndex ] ],
          input_ids |->
            [ r \in 1..Len(features) |->
                features[r].input_ids
                  \o [ k \in 1..(max_input_length - Len(features[r].input_ids)) |-> PadTokenId ] ],
          attention_mask |->
            [ r \in 1..Len(features) |->
                features[r].attention_mask
                  \o [ k \in 1..(max_input_length - Len(features[r].attention_mask)) |-> 0 ] ] ]

\* outputs.loss of model(input_ids, attention_mask, labels=labels): the mean
\* cross entropy over the label positions that are not ignore_index
LossPositions(labels) == { k \in 1..Len(labels) : labels[k] # IgnoreIndex }

\* token ids of a text of n tokens (none of them special)
RawText(n) == [ k \in 1..n |-> 2 + k ]

RawInputLengths == {1, InputMaxLength - 1, InputMaxLength}
RawTargetLengths ==
    {0, 1, TargetMaxLength - 2, TargetMaxLength - 1, TargetMaxLength, TargetMaxLength + 1}

RawExamples ==
    { [input |-> RawText(a), target |-> RawText(b)] :
        a \in RawInputLengths, b \in RawTargetLengths }

TokenizeStart ==
    /\ raw_batch \in UNION { [1..n -> RawExamples] : n \in 1..MaxTokBatch }
    /\ tokenized = <<>>
    /\ collated = <<>>
    /\ loss_positions = <<>>
    /\ tok_pc = "raw"

\* dataset.map(tokenize_function, batched=True, remove_columns=[...])
MapTokenize ==
    /\ tok_pc = "raw"
    /\ tokenized' = [ r \in 1..Len(raw_batch) |-> tokenize_function(raw_batch[r]) ]
    /\ tok_pc' = "tokenized"
    /\ UNCHANGED <<raw_batch, collated, loss_positions>>

\* the DataLoader hands the rows of one batch to collate_fn
Collate ==
    /\ tok_pc = "tokenized"
    /\ collated' = data_collator(tokenized)
    /\ tok_pc' = "collated"
    /\ UNCHANGED <<raw_batch, tokenized, loss_positions>>

\* the TRAIN step on that batch: the loss is taken over LossPositions
TrainStepLoss ==
    /\ tok_pc = "collated"
    /\ loss_positions' = [ r \in 1..Len(collated.labels) |-> LossPositions(collated.labels[r]) ]
    /\ tok_pc' = "loss"
    /\ UNCHANGED <<raw_batch, tokenized, collated>>

NextTokenize ==
    \/ (MapTokenize /\ UNCHANGED <<propVars, splitVars, runVars>>)
    \/ (Collate /\ UNCHANGED <<propVars, splitVars, runVars>>)
    \/ (TrainStepLoss /\ UNCHANGED <<propVars, splitVars, runVars>>)

InitTokenize == TokenizeStart /\ IdleProposal /\ IdleSplit /\ IdleRun

SpecTokenize == InitTokenize /\ [][NextTokenize]_vars

-----------------------------------------------------------------------------
(* Claims about create_synthetic_proposal / preprocess_data (SpecProposal) *)

\* Positions of the "\n" atoms of a text, and the line between the first two.
NewlinePositions(text) == { i \in 1..Len(text) : text[i] = "\n" }

Min(S) == CHOOSE x \in S : \A y \in S : x <= y

HypothesisLine(text) ==
    LET first == Min(NewlinePositions(text))
        second == Min(NewlinePositions(text) \ {first})
    IN  SubSeq(text, first + 1, second - 1)

HasNoMarker(sentence) == \A m \in Markers : ~Contains(m, sentence)

InOrder(text) ==
    \A p \in Occurrences(ProblemMarker, text) :
      \A h \in Occurrences(HypothesisMarker, text) :
        \A m \in Occurrences(MethodologyMarker, text) : p < h /\ h < m

\* C3 as stated: for every (sentence, label), with no restriction on the
\* sentence, the proposal holds exactly one "Problem:", one "Hypothesis:" and
\* one "Methodology:", in that order, and a second call returns the same string.
C3_ExactlyOneOfEachMarker ==
    prep_pc # "start" =>
        /\ \A i \in 1..Len(target_text) :
              /\ \A m \in Markers : CountOcc(m, target_text[i]) = 1
              /\ InOrder(target_text[i])
        /\ prep_pc = "again" => second_call = target_text

\* C3 amended: the proposal holds each marker once more than the sentence
\* does; for a sentence that holds none of the three markers that is exactly
\* one of each, in the order Problem, Hypothesis, Methodology; and a second
\* call on the same input returns the same strings.
C3_OneMarkerEachBeyondSentence ==
    prep_pc # "start" =>
        /\ Len(target_text) = Len(examples.sentence)
        /\ \A i \in 1..Len(target_text) :
              /\ \A m \in Markers :
                    CountOcc(m, target_text[i]) = CountOcc(m, examples.sentence[i]) + 1
              /\ HasNoMarker(examples.sentence[i]) =>
                    /\ \A m \in Markers : CountOcc(m, target_text[i]) = 1
                    /\ InOrder(target_text[i])
        /\ prep_pc = "again" => second_call = target_text

C3_Witness ==
    /\ prep_pc = "again"
    /\ Len(target_text) >= 1
    /\ examples.sentence[1] # <<>>
    /\ HasNoMarker(examples.sentence[1])
    /\ \A m \in Markers : CountOcc(m, target_text[1]) = 1

StirringTarget ==
    "Problem: Analyze sentiment in short texts like: 'a stirring, funny and finally transporting re-imagining'\nHypothesis: The positive sentiment can be detected using contextual embeddings.\nMethodology: Use a transformer-based model with fine-tuning on short-text datasets."

\* C7: for the sentence "a stirring, funny and finally transporting
\* re-imagining" with label 1 the target text is exactly the three-line
\* proposal of the spec; for every example the hypothesis line says
\* "positive" exactly when the label is 1 and "negative" for any other label.
C7_TargetTextAndSentiment ==
    prep_pc # "start" =>
        /\ Len(target_text) = Len(examples.label)
        /\ \A i \in 1..Len(target_text) :
              /\ (examples.sentence[i] = <<StirringSentence>> /\ examples.label[i] = 1)
                    => Join(target_text[i]) = StirringTarget
              /\ Contains(<<"positive">>, HypothesisLine(target_text[i]))
                    <=> examples.label[i] = 1
              /\ Contains(<<"negative">>, HypothesisLine(target_text[i]))
                    <=> examples.label[i] # 1

C7_Witness ==
    /\ prep_pc = "mapped"
    /\ Len(target_text) >= 1
    /\ examples.sentence[1] = <<StirringSentence>>
    /\ examples.label[1] = 1
    /\ Join(target_text[1]) = StirringTarget

-----------------------------------------------------------------------------
(* Claims about the splits (SpecSplit) *)

Range(seq) == { seq[i] : i \in 1..Len(seq) }

NoRepeats(seq) == Cardinality(Range(seq)) = Len(seq)

\* |size - (tenths/10) * n| < 1
WithinRounding(size, tenths, n) ==
    /\ 10 * size - tenths * n < 10
    /\ tenths * n - 10 * size < 10

TrainSize(n) == NTrain(n, 1, 5)
ValSize(n) == NTrain(NTest(n, 1, 5), 1, 2)
TestSize(n) == NTest(NTest(n, 1, 5), 1, 2)

\* C4: the train, validation and test sets partition the source: every source
\* example is in exactly one of them; their sizes are 0.8n, 0.1n and 0.1n
\* within rounding; and a second run with seed 42 yields the same three sets.
C4_SplitsPartitionSource ==
    /\ \A r \in 1..Len(splits) :
          LET s == splits[r]
          IN  /\ Range(s.train) \cup Range(s.val) \cup Range(s.test) = 1..src_n
              /\ Range(s.train) \cap Range(s.val) = {}
              /\ Range(s.train) \cap Range(s.test) = {}
              /\ Range(s.val) \cap Range(s.test) = {}
              /\ NoRepeats(s.train) /\ NoRepeats(s.val) /\ NoRepeats(s.test)
              /\ WithinRounding(Len(s.train), 8, src_n)
              /\ WithinRounding(Len(s.val), 1, src_n)
              /\ WithinRounding(Len(s.test), 1, src_n)
    /\ Len(splits) = 2 => splits[1] = splits[2]
    /\ split_pc # "idle" =>
          \A n \in 1..SizeCheckMax :
              (TrainSize(n) > 0 /\ ValSize(n) > 0) =>
                  /\ TrainSize(n) + ValSize(n) + TestSize(n) = n
                  /\ WithinRounding(TrainSize(n), 8, n)
                  /\ WithinRounding(ValSize(n), 1, n)
                  /\ WithinRounding(TestSize(n), 1, n)

C4_Witness ==
    /\ Len(splits) = 2
    /\ src_n >= 6
    /\ Len(splits[2].train) >= 4
    /\ Len(splits[2].val) >= 1
    /\ Len(splits[2].test) >= 1
    /\ splits[1].train # [i \in 1..Len(splits[1].train) |-> i]

-----------------------------------------------------------------------------
(* Claims about the run of the notebook (Spec, SpecLarge) *)

Printed(tag) == \E k \in 1..Len(printed) : printed[k] = tag

Last(seq) == seq[Len(seq)]

RECURSIVE SumSeq(_)
SumSeq(seq) == IF seq = <<>> THEN 0 ELSE Head(seq) + SumSeq(Tail(seq))

\* C2 as stated: only the dataset load and the model/tokenizer load are
\* guarded; a failure of any other stage, preprocessing included, is caught by
\* no handler and propagates uncaught.
C2_OnlyTwoStagesGuarded ==
    /\ failed_at \in {"load_dataset", "load_model"} =>
          outcome = "SystemExit" /\ Last(printed) = "Error"
    /\ failed_at \notin {"none", "load_dataset", "load_model"} =>
          outcome = "Uncaught" /\ ~Printed("Error")

C2_FailureHandling ==
    /\ failed_at \in {"load_dataset", "preprocess", "load_model"} =>
          outcome = "SystemExit" /\ Last(printed) = "Error" /\ pc = failed_at
    /\ failed_at \notin {"none", "load_dataset", "preprocess", "load_model"} =>
          outcome = "Uncaught" /\ ~Printed("Error")
    /\ failed_at = "none" => outcome \in {"running", "completed"}

\* C2 amended: three stages are guarded, the dataset load, the preprocessing
\* map and the model/tokenizer load: a failure in one of them is caught, a
\* diagnostic is printed and the process ends with SystemExit; a failure in any
\* other stage propagates uncaught; after a failure nothing more runs.
C2_ThreeStagesGuarded == [](C2_FailureHandling) /\ [][failed_at = "none"]_vars

C2_Witness ==
    /\ failed_at = "preprocess"
    /\ outcome = "SystemExit"
    /\ Last(printed) = "Error"

\* C5: after any number of test batches the predictions and the references
\* have the same length, and entry k of each comes from test example k.
C5_PredictionsAlignedWithReferences ==
    /\ Len(generated) = Len(references)
    /\ \A k \in 1..Len(generated) : generated[k].src = k
    /\ \A k \in 1..Len(references) :
          references[k].src = k /\ references[k].text = <<"target", k>>
    /\ pc = "test" =>
          Len(references) =
              (IF batch_no * BatchSize <= sizes.test THEN batch_no * BatchSize ELSE sizes.test)

C5_Witness ==
    /\ pc = "test"
    /\ batch_no = 2
    /\ Len(generated) = BatchSize + 1
    /\ generated[1].text = <<>>
    /\ generated[2].text = ConformingText
    /\ generated[BatchSize + 1].src = BatchSize + 1

C8_LossLists ==
    /\ Len(val_losses) \in {Len(train_losses), Len(train_losses) - 1}
    /\ pc = "train" => Len(train_losses) = epoch /\ Len(val_losses) = epoch
    /\ pc = "validate" => Len(train_losses) = epoch + 1 /\ Len(val_losses) = epoch
    /\ pc \in {"test", "score", "done"} =>
          /\ epoch = EPOCHS
          /\ Len(train_losses) = EPOCHS
          /\ Len(val_losses) = EPOCHS
          /\ trained = EPOCHS * NumBatches(sizes.train)
          /\ validated = EPOCHS * NumBatches(sizes.val)
    /\ outcome = "completed" => pc = "done"

C8_Appends ==
    /\ Len(train_losses') > Len(train_losses) =>
          /\ Len(phase_losses) = NumBatches(sizes.train)
          /\ train_losses' = Append(train_losses,
                                    <<SumSeq(phase_losses), NumBatches(sizes.train)>>)
    /\ Len(val_losses') > Len(val_losses) =>
          /\ Len(phase_losses) = NumBatches(sizes.val)
          /\ val_losses' = Append(val_losses,
                                  <<SumSeq(phase_losses), NumBatches(sizes.val)>>)

\* C8: a run with no failure goes through exactly 5 epochs, each a TRAIN phase
\* over all training batches then a VALIDATE phase over all validation batches;
\* val_losses is always as long as train_losses or one shorter; each entry is
\* the average of the losses of its own epoch only; both end with 5 entries.
C8_FiveEpochsOfTrainThenValidate == [](C8_LossLists) /\ [][C8_Appends]_vars

C8_Witness ==
    /\ outcome = "completed"
    /\ Len(train_losses) = EPOCHS
    /\ Len(val_losses) = EPOCHS
    /\ train_losses[1] = <<2, 2>>
    /\ train_losses[2] = <<4, 2>>
    /\ val_losses[1] # val_losses[EPOCHS]

C9_BaseFrozen == params # <<>> => params.base.value = 0

C9_OnlyTrainStepChangesAdapters ==
    ("lora_A" \in DOMAIN params /\ params' # params) =>
        /\ pc = "train"
        /\ trained' = trained + 1
        /\ DOMAIN params' = DOMAIN params
        /\ params'.base = params.base
        /\ params'.lora_A # params.lora_A
        /\ params'.lora_B # params.lora_B

\* C9: parameters change only by the optimizer step of a TRAIN batch, which
\* changes only the low-rank adapter matrices: the base weights stay as loaded
\* and nothing changes during VALIDATE or test-time generation.
C9_OnlyAdaptersTrained == [](C9_BaseFrozen) /\ [][C9_OnlyTrainStepChangesAdapters]_vars

C9_Witness ==
    /\ pc = "test"
    /\ Len(generated) >= 1
    /\ validated >= 1
    /\ params.base.value = 0
    /\ params.lora_A.value = trained
    /\ trained = EPOCHS * NumBatches(sizes.train)

FinalMetricPrinted ==
    \/ Printed("Final Test ROUGE-L")
    \/ Printed("Novelty Score")
    \/ Printed("Relevance Score")

C10_AbortedAtBatch ==
    /\ failed_at \in BatchStages =>
          /\ outcome = "Uncaught"
          /\ pc = failed_at
          /\ relevance = <<>>
          /\ ~FinalMetricPrinted
          /\ failed_at = "train" => Len(train_losses) = epoch
          /\ failed_at = "validate" => Len(val_losses) = epoch
    /\ ~(outcome = "completed" /\ failed_at # "none")
    /\ outcome = "completed" =>
          /\ Printed("Final Test ROUGE-L")
          /\ Printed("Novelty Score")
          /\ Printed("Relevance Score")
          /\ relevance # <<>>

\* C10: when a batch fails in TRAIN, VALIDATE or test generation the run stops
\* there: no later batch, no optimizer step, no average appended for the phase
\* in progress, no final score computed or printed; a run ends completed with
\* its metrics printed or aborted, never both.
C10_RunStopsAtFailedBatch ==
    [](C10_AbortedAtBatch) /\ [][failed_at \notin BatchStages]_vars

C10_Witness ==
    /\ failed_at = "train"
    /\ outcome = "Uncaught"
    /\ epoch >= 1
    /\ batch_no >= 1
    /\ batch_no + 1 < NumBatches(sizes.train)

-----------------------------------------------------------------------------
(* Claims about the relevance ratio (SpecRelevance) *)

HasAllMarkers(text) == \A m \in Markers : CountOcc(m, text) >= 1

FullyConforming(preds) == { k \in 1..Len(preds) : HasAllMarkers(preds[k].text) }

\* C6: for a non-empty list of predictions the relevance ratio is the number
\* of predictions that contain all three markers over the number of
\* predictions: 1.0 when all do, 0.0 when none does, and a prediction with only
\* two of the markers adds nothing to the numerator.
C6_RelevanceCountsFullConformance ==
    (pc = "done" /\ Len(generated) > 0) =>
        /\ relevance = <<Cardinality(FullyConforming(generated)), Len(generated)>>
        /\ (\A k \in 1..Len(generated) : HasAllMarkers(generated[k].text))
              => relevance[1] = relevance[2]
        /\ (\A k \in 1..Len(generated) : ~HasAllMarkers(generated[k].text))
              => relevance[1] = 0

C6_Witness ==
    /\ pc = "done"
    /\ Len(generated) = 2
    /\ generated[1].text = TextOf({1, 2, 3}, 1)
    /\ generated[2].text = TextOf({1, 2, 4}, 1)
    /\ relevance = <<1, 2>>

-----------------------------------------------------------------------------
(* Claims about tokenization (SpecTokenize) *)

\* the label positions of an example that hold a real target token or </s>
RealLabelLength(ex) ==
    IF Len(ex.target) + 1 > TargetMaxLength THEN TargetMaxLength ELSE Len(ex.target) + 1

\* C1: in every example handed to the training step, every padding position
\* of the labels (after the real target tokens, up to the cap of 256) is
\* flagged as ignored, so no padding position enters the training loss.
C1_LabelPaddingIgnored ==
    tok_pc = "loss" =>
        \A r \in 1..Len(raw_batch) :
            \A k \in (RealLabelLength(raw_batch[r]) + 1)..TargetMaxLength :
                /\ collated.labels[r][k] = IgnoreIndex
                /\ k \notin loss_positions[r]

====
